---- MODULE Spec2Model ----
(***************************************************************************)
(* The ESMPy LocStream wrapper (src/addon/ESMPy/src/ESMF/api/locstream.py) *)
(* as a state machine: the LocStream objects of one Python process, the    *)
(* numpy arrays their dict entries refer to, and the ESMF engine state     *)
(* behind the ESMP_* calls.                                                *)
(*                                                                         *)
(* A numpy array is modelled as a view <<base, start, len>> onto a block   *)
(* of memory held in heap: two views with the same base alias each other.  *)
(* An array has a kind of element, integer or float, as numpy's dtype.kind.*)
(* The ESMP_* layer, numpy and ESMF.util.slicing are not part of the       *)
(* modelled file; the ESMP_* operators below follow the engine interface.  *)
(* Inputs are lists (a fresh array per write), ranges with start, stop     *)
(* >= 0 and step 1, and integer indices.                                   *)
(***************************************************************************)
EXTENDS Integers, Sequences, FiniteSets, TLC

\* ------------------------------------------------------------------ bounds
\* largest location_count
MaxSize == 2
\* calls the program makes after it has constructed its first LocStream
MaxOps == 3

\* every call constructs at most one object, and at most one array
MaxStreams == MaxOps + 1

\* the values an array element takes
Vals == {0, 1}
\* the kinds of element of a list or an array: integers ("i") or floats ("f"),
\* the values 0 and 1 then standing for 0.0 and 1.0
ElemKinds == {"i", "f"}
\* key names used in the class docstring
Keys == {"ESMF:X", "ESMF:Mask"}
\* the name argument: a user friendly name
Names == {"obs"}
\* processor counts of a run: serial, or the parallel test run
PetCounts == {1, 4}

\* location_count arguments
Sizes == 0..MaxSize
\* list arguments of a key write: of every length, the list 0, 1, 0, ... and
\* the list 1, 0, 1, ...
Values == {[j \in 1..n |-> (j + d) % 2] : n \in 0..(MaxSize + 1), d \in Vals}
\* range and index arguments of stream[...]
Indices == 0..(MaxSize + 1)
SliceArgs == {<<"slice", a, b>> : a \in Indices, b \in Indices}
                \cup {<<"int", a, a>> : a \in Indices}

VARIABLES
  streams,   \* the LocStream objects, in order of construction
  heap,      \* memory blocks of numpy arrays: block id -> sequence of values
  esmf,      \* engine state per handle (struct)
  petCount,  \* pet_count() of this run
  localPet,  \* local_pet() of this process
  phase,     \* "running", "done" or "crashed"
  result,    \* the last call: operation, object, exception raised and the
             \* number of ESMP_LocStream* calls it made
  budget,    \* calls the program still makes before it exits
  \* the processes of a run of examples/grid_locstream_regrid.py, by rank
  fields,     \* dstfield.data and xctfield.data of each process
  pc,         \* the line each process is at, or how it ended
  num_nodes,  \* the variables of the script, of each process
  relerr,
  meanrelerr,
  comm,       \* what each process has handed to the reductions of COMM_WORLD
  out         \* what was printed: the process and the mean relative error

\* the variables of the run of the example script
script == <<fields, pc, num_nodes, relerr, meanrelerr, comm, out>>

vars == <<streams, heap, esmf, petCount, localPet, phase, result, budget,
          fields, pc, num_nodes, relerr, meanrelerr, comm, out>>

\* a call by the running program
Call ==
  /\ phase = "running"
  /\ budget > 0
  /\ budget' = budget - 1

Res(op, self, err, calls) ==
  [op |-> op, self |-> self, err |-> err, calls |-> calls]

Max(a, b) == IF a > b THEN a ELSE b
Min(a, b) == IF a < b THEN a ELSE b

\* ------------------------------------------------------------ numpy arrays
EngineBuf(h, k) == <<"esmf", h, k>>
NpBuf(n) == <<"np", n, "">>
NpIds == {NpBuf(n) : n \in 1..MaxStreams}

View(base, start, len, kind) ==
  [base |-> base, start |-> start, len |-> len, kind |-> kind]

\* the elements of an array
ReadView(hp, v) == [j \in 1..v.len |-> hp[v.base][v.start + j]]

\* keyvals[...] = value
WriteView(hp, v, value) ==
  [hp EXCEPT ![v.base] =
     [j \in 1..Len(@) |->
        IF j > v.start /\ j <= v.start + v.len /\ (j - v.start) \in DOMAIN value
        THEN value[j - v.start] ELSE @[j]]]

\* array[j] = x, j counted from 1
WriteElem(hp, v, j, x) ==
  [hp EXCEPT ![v.base] = [@ EXCEPT ![v.start + j] = x]]

\* an index of a slice brought into 0..n, as numpy does
ClampIndex(a, n) == IF a < 0 THEN Max(a + n, 0) ELSE Min(a, n)

\* a slice that starts where the array starts
ndarray_getslice_nooffset(v, start, stop) ==
  LET a == ClampIndex(start, v.len)
      b == ClampIndex(stop, v.len)
  IN View(v.base, v.start, IF b > a THEN b - a ELSE 0, v.kind)

\* array[start:stop]: a view onto the same memory
ndarray_getslice(v, start, stop) ==
  LET a == ClampIndex(start, v.len)
      b == ClampIndex(stop, v.len)
  IN View(v.base, v.start + a, IF b > a THEN b - a ELSE 0, v.kind)

\* arrays no dict entry refers to any more are freed; engine buffers stay
Collect(hp, ss) ==
  LET live == {a \in DOMAIN hp : a \notin NpIds \/ \E i \in DOMAIN ss :
                 \E k \in DOMAIN ss[i].keys : ss[i].keys[k].base = a}
  IN [a \in live |-> hp[a]]

\* np.array(value): a new array
FreshNp(hp) == CHOOSE a \in NpIds \ DOMAIN hp :
                 \A b \in NpIds \ DOMAIN hp : a[2] <= b[2]

\* ------------------------------------------------------------- ESMP layer
pet_count == petCount

ESMP_LocStreamCreateLocal(e, location_count) ==
  Append(e, [count |-> location_count, released |-> 0,
             addkey |-> [k \in Keys |-> 0]])

\* the first and the last process of a run
LocalPets == {0, petCount - 1}

\* the bounds of the partition of process pet when every process holds as
\* many points: the lower bound is 0 based, the upper bound is exclusive
ESMP_LocStreamGetBounds(e, h, pet) ==
  <<pet * e[h].count, pet * e[h].count + e[h].count>>

ESMP_LocStreamDestroy(e, h) == [e EXCEPT ![h].released = @ + 1]

ESMP_LocStreamAddKeyAlloc(e, h, k) == [e EXCEPT ![h].addkey[k] = @ + 1]

\* what the engine answers to a key registration
AddKeyError(e, hp, h, k) ==
  IF e[h].released > 0 THEN "UseAfterRelease"
  ELSE IF EngineBuf(h, k) \in DOMAIN hp THEN "KeyExists"
  ELSE ""

\* ------------------------------------------------------------- LocStream
\* __init__ with esmf=False
LocStream__init__(location_count, name) ==
  [name |-> name, size |-> location_count, struct |-> 0,
   lower_bounds |-> 0, upper_bounds |-> 0,
   finalized |-> FALSE, keys |-> <<>>]

\* LocStream(location_count, name=name): __init__ with esmf=True
NewLocStream(ss, e, location_count, name, pet) ==
  LET e1 == ESMP_LocStreamCreateLocal(e, location_count)
      h == Len(e1)
      b == ESMP_LocStreamGetBounds(e1, h, pet)
  IN [streams |-> Append(ss,
        [LocStream__init__(location_count, name) EXCEPT
           !.struct = h, !.lower_bounds = b[1], !.upper_bounds = b[2]]),
      esmf |-> e1]

\* the program has constructed its first LocStream
Init ==
  /\ petCount \in PetCounts
  /\ localPet \in LocalPets
  /\ \E n \in Sizes, name \in Names :
       /\ streams = NewLocStream(<<>>, <<>>, n, name, localPet).streams
       /\ esmf = NewLocStream(<<>>, <<>>, n, name, localPet).esmf
  /\ heap = <<>>
  /\ phase = "running"
  /\ result = Res("create", 0, "", 2)
  /\ budget = MaxOps
  /\ fields = <<>> /\ pc = <<>> /\ num_nodes = <<>> /\ relerr = <<>>
  /\ meanrelerr = <<>> /\ comm = <<>> /\ out = <<>>

\* a further LocStream(location_count, name=name)
Create(location_count, name) ==
  /\ Call
  /\ Len(streams) < MaxStreams
  /\ streams' = NewLocStream(streams, esmf, location_count, name, localPet).streams
  /\ esmf' = NewLocStream(streams, esmf, location_count, name, localPet).esmf
  /\ result' = Res("create", 0, "", 2)
  /\ UNCHANGED <<heap, petCount, localPet, phase>>
  /\ UNCHANGED script

\* copy() that leaves the flag as __init__ set it
copy_unfinalized(self) ==
  [LocStream__init__(self.size, self.name) EXCEPT
     !.struct = self.struct,
     !.lower_bounds = self.lower_bounds,
     !.upper_bounds = self.upper_bounds,
     !.keys = self.keys]

\* copy() that does not pass the name on
copy_noname(self) ==
  [LocStream__init__(self.size, "None") EXCEPT
     !.struct = self.struct,
     !.lower_bounds = self.lower_bounds,
     !.upper_bounds = self.upper_bounds,
     !.keys = self.keys,
     !.finalized = TRUE]

\* copy() that does not fill the new dict
copy_nokeys(self) ==
  [LocStream__init__(self.size, self.name) EXCEPT
     !.struct = self.struct,
     !.lower_bounds = self.lower_bounds,
     !.upper_bounds = self.upper_bounds,
     !.finalized = TRUE]

\* copy(), lines 243-256
copy(self) ==
  [LocStream__init__(self.size, self.name) EXCEPT
     !.struct = self.struct,
     !.lower_bounds = self.lower_bounds,
     !.upper_bounds = self.upper_bounds,
     !.keys = self.keys,
     !.finalized = TRUE]

Copy(i) ==
  /\ Call
  /\ i \in DOMAIN streams
  /\ Len(streams) < MaxStreams
  /\ streams' = Append(streams, copy(streams[i]))
  /\ result' = Res("copy", i, "", 0)
  /\ UNCHANGED <<heap, esmf, petCount, localPet, phase>>
  /\ UNCHANGED script

\* get_formatted_slice(slc, 1): an index i is the range [i, i+1)
get_formatted_slice(slc) ==
  IF slc[1] = "int" THEN <<slc[2], slc[2] + 1>> ELSE <<slc[2], slc[3]>>

\* len(range(n))
range_len(n) == IF n > 0 THEN n ELSE 0

\* ret._upper_bounds = len(range(slc_ls.stop - slc_ls.start))
slice_upper_bounds(ret, slc_ls) == range_len(slc_ls[2] - slc_ls[1])

\* the size left as copy() set it
slice_size_kept(ret) == ret.size

\* ret._size = ret.upper_bounds - ret.lower_bounds
slice_size(ret) == ret.upper_bounds - ret.lower_bounds

\* super(LocStream, self).__getitem__(x)[slc_ls], for every key x of ret
slice_keys(self, ret, slc_ls) ==
  [x \in DOMAIN ret.keys |-> ndarray_getslice(self.keys[x], slc_ls[1], slc_ls[2])]

\* a check that lets shorter values pass
LengthOK_atmost(n, self) == n <= self.size

\* a check that lets longer values pass
LengthOK_atleast(n, self) == n >= self.size

\* len(value) != self.size raises ValueError; n is len(value)
LengthOK(n, self) == n = self.size

\* the except TypeError branch of __getitem__: ret[x] = ... is __setitem__ on
\* a key ret already holds, which checks the length and stores the array given.
\* When that raises, ret is returned to nobody: it stays registered with atexit,
\* where its __del__ does nothing as copy() has set _finalized, and it is left
\* out of streams.
getitem_slice(self, slc_ls) ==
  LET ret0 == copy(self)
      ret1 == [ret0 EXCEPT !.upper_bounds = slice_upper_bounds(ret0, slc_ls)]
      ret2 == [ret1 EXCEPT !.size = slice_size(ret1)]
      sliced == slice_keys(self, ret2, slc_ls)
  IN IF \E x \in DOMAIN sliced : ~LengthOK(sliced[x].len, ret2)
     THEN [err |-> "ValueError", ret |-> ret2]
     ELSE [err |-> "", ret |-> [ret2 EXCEPT !.keys = sliced]]

\* what a call returns: None, or a reference to an array
PyNone == <<>>
PyRef(v) == <<v>>

\* lines 131-133 for a string key: dict.__getitem__
dict_getitem(self, key) ==
  IF key \in DOMAIN self.keys
  THEN [err |-> "", value |-> PyRef(self.keys[key])]
  ELSE [err |-> "KeyError", value |-> PyNone]

\* stream[key] with a string key
GetItemKey(i, key) ==
  /\ Call
  /\ i \in DOMAIN streams
  /\ result' = Res("getitem", i, dict_getitem(streams[i], key).err, 0)
  /\ UNCHANGED <<streams, heap, esmf, petCount, localPet, phase>>
  /\ UNCHANGED script

\* a check that lets a parallel run slice
SerialMethodRaised_never == FALSE

\* if pet_count() > 1: raise SerialMethod
SerialMethodRaised == pet_count > 1

\* the mask property without its except clause
mask_noexcept(self) == dict_getitem(self, "ESMF:Mask")

\* the mask property, lines 191-199: an exception of the lookup is
\* swallowed and None returned
mask(self) ==
  LET r == dict_getitem(self, "ESMF:Mask")
  IN IF r.err = "" THEN r ELSE [err |-> "", value |-> PyNone]

\* stream.mask
Mask(i) ==
  /\ Call
  /\ i \in DOMAIN streams
  /\ result' = [op |-> "mask", self |-> i, err |-> mask(streams[i]).err,
                calls |-> 0, value |-> mask(streams[i]).value]
  /\ UNCHANGED <<streams, heap, esmf, petCount, localPet, phase>>
  /\ UNCHANGED script

\* stream[slc] with a range or an index
GetItemSlice(i, slc) ==
  /\ Call
  /\ i \in DOMAIN streams
  /\ IF SerialMethodRaised
     THEN /\ result' = Res("slice", i, "SerialMethod", 0)
          /\ UNCHANGED streams
     ELSE LET r == getitem_slice(streams[i], get_formatted_slice(slc))
          IN IF r.err # ""
             THEN /\ result' = Res("slice", i, r.err, 0)
                  /\ UNCHANGED streams
             ELSE /\ Len(streams) < MaxStreams
                  /\ streams' = Append(streams, r.ret)
                  /\ result' = Res("slice", i, "", 0)
  /\ UNCHANGED <<heap, esmf, petCount, localPet, phase>>
  /\ UNCHANGED script

\* _add_: the array made of the key's engine buffer, of the typekind given
add_keyvals(self, key, typekind) ==
  View(EngineBuf(self.struct, key), 0, self.size, typekind)

\* np.array(value).dtype.kind for a list of elements of kind t: an empty list
\* makes an array of floats
array_kind(value, t) == IF Len(value) = 0 THEN "f" ELSE t

\* stream[key] = value, value a list of elements of one kind
SetItem(i, key, value) ==
  /\ Call
  /\ i \in DOMAIN streams
  /\ \E t \in ElemKinds :
     LET self == streams[i]
         h == self.struct
         kind == array_kind(value, t)
     IN
     IF ~LengthOK(Len(value), self)
     THEN /\ result' = Res("setitem", i, "ValueError", 0)
          /\ UNCHANGED <<streams, heap, esmf, phase>>
     ELSE IF key \notin DOMAIN self.keys
     THEN IF Len(value) = 0
          THEN \* type(value[0])
               /\ result' = Res("setitem", i, "IndexError", 0)
               /\ UNCHANGED <<streams, heap, esmf, phase>>
          ELSE /\ esmf' = ESMP_LocStreamAddKeyAlloc(esmf, h, key)
               /\ IF AddKeyError(esmf, heap, h, key) # ""
                  THEN /\ result' = Res("setitem", i, AddKeyError(esmf, heap, h, key), 1)
                       /\ UNCHANGED <<streams, heap, phase>>
                  ELSE \/ /\ streams' = [streams EXCEPT ![i].keys =
                                           (key :> add_keyvals(self, key, kind)) @@ @]
                          /\ heap' = WriteView(
                               heap @@ (EngineBuf(h, key) :>
                                  [j \in 1..Max(esmf[h].count, self.size) |-> 0]),
                               add_keyvals(self, key, kind), value)
                          /\ result' = Res("setitem", i, "", 2)
                          /\ UNCHANGED phase
                       \/ \* the array is longer than the engine's buffer
                          /\ self.size > esmf[h].count
                          /\ phase' = "crashed"
                          /\ result' = Res("setitem", i, "Crash", 2)
                          /\ UNCHANGED <<streams, heap>>
     ELSE /\ NpIds \ DOMAIN heap # {}
          /\ LET a == FreshNp(heap)
                 ss == [streams EXCEPT ![i].keys[key] = View(a, 0, Len(value), kind)]
             IN /\ streams' = ss
                /\ heap' = Collect(heap @@ (a :> value), ss)
          /\ result' = Res("setitem", i, "", 0)
          /\ UNCHANGED <<esmf, phase>>
  /\ UNCHANGED <<petCount, localPet>>
  /\ UNCHANGED script

\* stream[key][j] = x by the caller, on an array whose memory is still held
UpdateInPlace(i, key, j, x) ==
  /\ Call
  /\ i \in DOMAIN streams
  /\ key \in DOMAIN streams[i].keys
  /\ LET v == streams[i].keys[key]
     IN /\ j \in 1..v.len
        /\ IF v.base \in NpIds THEN TRUE ELSE esmf[v.base[2]].released = 0
        /\ heap' = WriteElem(heap, v, j, x)
  /\ result' = Res("update", i, "", 0)
  /\ UNCHANGED <<streams, esmf, petCount, localPet, phase>>
  /\ UNCHANGED script

\* destroy() without the _finalized guard
destroy_unguarded(ss, e, i) ==
  [streams |-> [ss EXCEPT ![i].finalized = TRUE],
   esmf |-> ESMP_LocStreamDestroy(e, ss[i].struct),
   calls |-> 1]

\* destroy() on object i of ss with engine state e
destroy(ss, e, i) ==
  IF ~ss[i].finalized
  THEN [streams |-> [ss EXCEPT ![i].finalized = TRUE],
        esmf |-> ESMP_LocStreamDestroy(e, ss[i].struct),
        calls |-> 1]
  ELSE [streams |-> ss, esmf |-> e, calls |-> 0]

\* an explicit stream.destroy()
Destroy(i) ==
  /\ Call
  /\ i \in DOMAIN streams
  /\ streams' = destroy(streams, esmf, i).streams
  /\ esmf' = destroy(streams, esmf, i).esmf
  /\ result' = Res("destroy", i, "", destroy(streams, esmf, i).calls)
  /\ UNCHANGED <<heap, petCount, localPet, phase>>
  /\ UNCHANGED script

\* __del__ of object i
del(st, i) == destroy(st.streams, st.esmf, i)

\* the handlers atexit.register(self.__del__) of the objects 1..n, the one
\* registered last first
RECURSIVE run_exitfuncs(_, _, _)
run_exitfuncs(ss, e, n) ==
  IF n = 0 THEN [streams |-> ss, esmf |-> e, calls |-> 0]
  ELSE LET d == del([streams |-> ss, esmf |-> e], n)
           r == run_exitfuncs(d.streams, d.esmf, n - 1)
       IN [r EXCEPT !.calls = @ + d.calls]

\* the interpreter exits: it runs the registered handlers
Exit ==
  /\ phase = "running"
  /\ phase' = "done"
  /\ budget' = 0
  /\ streams' = run_exitfuncs(streams, esmf, Len(streams)).streams
  /\ esmf' = run_exitfuncs(streams, esmf, Len(streams)).esmf
  /\ result' = Res("exit", 0, "", run_exitfuncs(streams, esmf, Len(streams)).calls)
  /\ UNCHANGED <<heap, petCount, localPet>>
  /\ UNCHANGED script

Next ==
  \/ \E n \in Sizes, name \in Names : Create(n, name)
  \/ \E i \in 1..MaxStreams : Copy(i)
  \/ \E i \in 1..MaxStreams, key \in Keys : GetItemKey(i, key)
  \/ \E i \in 1..MaxStreams : Mask(i)
  \/ \E i \in 1..MaxStreams, slc \in SliceArgs : GetItemSlice(i, slc)
  \/ \E i \in 1..MaxStreams, key \in Keys, value \in Values : SetItem(i, key, value)
  \/ \E i \in 1..MaxStreams, key \in Keys, j \in 1..(MaxSize + 1), x \in Vals :
       UpdateInPlace(i, key, j, x)
  \/ \E i \in 1..MaxStreams : Destroy(i)
  \/ Exit

Spec == Init /\ [][Next]_vars

\* the interpreter keeps running the program, and exits when it has ended
FairSpec == Spec /\ WF_vars(Next)

\* ------------------------------ examples/grid_locstream_regrid.py, 66-90
\* largest number of points a process holds
MaxPoints == 2

\* the value 1e20 that marks a point the regridding left untouched, scaled to
\* the integers checked here: no computed value reaches it
Sentinel == 100

\* the ranks of the processes of the run
Pets == 0..(petCount - 1)

\* rational numbers <<numerator, denominator>> in lowest terms, for the floats
\* of the script
RECURSIVE GCD(_, _)
GCD(a, b) == IF b = 0 THEN a ELSE GCD(b, a % b)
Abs(x) == IF x < 0 THEN -x ELSE x
Rat(n, d) == LET g == GCD(Abs(n), Abs(d)) IN <<n \div g, d \div g>>
Zero == <<0, 1>>
RatAdd(x, y) == Rat(x[1] * y[2] + y[1] * x[2], x[2] * y[2])
RatDiv(x, n) == Rat(x[1], x[2] * n)

\* a point of the two fields: the value computed by the regridding (or the
\* sentinel) and the exact value
PointCases ==
  << <<3, 2>>, <<1, 0>>, <<Sentinel, 2>>, <<5, 2>>, <<2, 2>>, <<Sentinel, 0>> >>

\* the fields of the process of rank p when it holds n points: the global
\* sequence of points runs through PointCases
LocalFields(p, n) ==
  [dst |-> [j \in 1..n |-> PointCases[((p + j - 1) % Len(PointCases)) + 1][1]],
   xct |-> [j \in 1..n |-> PointCases[((p + j - 1) % Len(PointCases)) + 1][2]]]

\* reduce(mul, xctfield.shape) of a field of one dimension
shape_product(f) == Len(f.xct)

\* numpy.where that does not look at the sentinel
numpy_where_nosentinel(f) ==
  {j \in 1..Len(f.xct) : f.xct[j] # 0}

\* numpy.where((dstfield.data != 1e20) & (xctfield.data != 0))
numpy_where(f) ==
  {j \in 1..Len(f.xct) : f.dst[j] # Sentinel /\ f.xct[j] # 0}

\* numpy.abs(dstfield.data[j] - xctfield.data[j]) / numpy.abs(xctfield.data[j])
relerr_term(f, j) == Rat(Abs(f.dst[j] - f.xct[j]), Abs(f.xct[j]))

\* numpy.sum of the terms at the indices ind
RECURSIVE numpy_sum(_, _)
numpy_sum(f, ind) ==
  IF ind = {} THEN Zero
  ELSE LET j == CHOOSE x \in ind : TRUE
       IN RatAdd(relerr_term(f, j), numpy_sum(f, ind \ {j}))

\* relerr after lines 69-73
local_relerr(f) ==
  IF shape_product(f) # 0 THEN numpy_sum(f, numpy_where(f)) ELSE Zero

\* meanrelerr after lines 70-74
local_meanrelerr(f) ==
  IF shape_product(f) # 0 THEN RatDiv(local_relerr(f), shape_product(f)) ELSE Zero

\* the script is at line 66 on every process
InitRegrid ==
  /\ petCount \in PetCounts
  /\ localPet = 0
  /\ streams = <<>> /\ heap = <<>> /\ esmf = <<>>
  /\ phase = "running"
  /\ result = Res("none", 0, "", 0)
  /\ budget = 0
  /\ \E n \in [Pets -> 0..MaxPoints] : fields = [p \in Pets |-> LocalFields(p, n[p])]
  /\ pc = [p \in Pets |-> "L66"]
  /\ num_nodes = [p \in Pets |-> 0]
  /\ relerr = [p \in Pets |-> Zero]
  /\ meanrelerr = [p \in Pets |-> Zero]
  /\ comm = [p \in Pets |-> <<>>]
  /\ out = <<>>

LocStreamVars == <<streams, heap, esmf, petCount, localPet, phase, result, budget>>

\* lines 66-74 on process p
LocalError(p) ==
  /\ pc[p] = "L66"
  /\ num_nodes' = [num_nodes EXCEPT ![p] = shape_product(fields[p])]
  /\ relerr' = [relerr EXCEPT ![p] = local_relerr(fields[p])]
  /\ meanrelerr' = [meanrelerr EXCEPT ![p] = local_meanrelerr(fields[p])]
  /\ pc' = [pc EXCEPT ![p] = IF pet_count > 1 THEN "L83" ELSE "L87"]
  /\ UNCHANGED <<fields, comm, out>>
  /\ UNCHANGED LocStreamVars

\* the values the processes other than the root handed to reduction r
Handed(r) == {q \in Pets \ {0} : Len(comm[q]) >= r}

RECURSIVE SumRat(_, _)
SumRat(S, r) ==
  IF S = {} THEN Zero
  ELSE LET q == CHOOSE x \in S : TRUE
       IN RatAdd(comm[q][r][2], SumRat(S \ {q}, r))

RECURSIVE SumInt(_, _)
SumInt(S, r) ==
  IF S = {} THEN 0
  ELSE LET q == CHOOSE x \in S : TRUE
       IN comm[q][r][2] + SumInt(S \ {q}, r)

\* None, as comm.reduce returns it to the processes other than the root, in
\* the place of a float and in the place of an int
NoneFloat == <<0, 0>>
NoneInt == 0 - 1

\* the root of reduction r has the value of every other process
reduce_ready(r) == Handed(r) = Pets \ {0}

\* a reduction that returns to the root its own value
comm_reduce_relerr_own(p, r) == relerr[p]

\* what comm.reduce(relerr, op=MPI.SUM) returns to the root p as reduction r
comm_reduce_relerr(p, r) == RatAdd(relerr[p], SumRat(Pets \ {0}, r))

\* what comm.reduce(num_nodes, op=MPI.SUM) returns to the root p as reduction r
comm_reduce_num_nodes(p, r) == num_nodes[p] + SumInt(Pets \ {0}, r)

\* line 83: comm.reduce(relerr, op=MPI.SUM). The root waits for the value of
\* every process and gets the sum; every other process hands in its value and
\* gets None.
ReduceRelerr(p) ==
  /\ pc[p] = "L83"
  /\ IF p = 0
     THEN /\ reduce_ready(Len(comm[p]) + 1)
          /\ relerr' = [relerr EXCEPT ![p] = comm_reduce_relerr(p, Len(comm[p]) + 1)]
     ELSE relerr' = [relerr EXCEPT ![p] = NoneFloat]
  /\ comm' = [comm EXCEPT ![p] = Append(@, <<"relerr", relerr[p]>>)]
  /\ pc' = [pc EXCEPT ![p] = "L84"]
  /\ UNCHANGED <<fields, num_nodes, meanrelerr, out>>
  /\ UNCHANGED LocStreamVars

\* line 84: comm.reduce(num_nodes, op=MPI.SUM)
ReduceNumNodes(p) ==
  /\ pc[p] = "L84"
  /\ IF p = 0
     THEN /\ reduce_ready(Len(comm[p]) + 1)
          /\ num_nodes' = [num_nodes EXCEPT ![p] =
                             comm_reduce_num_nodes(p, Len(comm[p]) + 1)]
     ELSE num_nodes' = [num_nodes EXCEPT ![p] = NoneInt]
  /\ comm' = [comm EXCEPT ![p] = Append(@, <<"num_nodes", num_nodes[p]>>)]
  /\ pc' = [pc EXCEPT ![p] = "L87"]
  /\ UNCHANGED <<fields, relerr, meanrelerr, out>>
  /\ UNCHANGED LocStreamVars

\* lines 86-90: process 0 divides and prints; 0 / 0 raises ZeroDivisionError
Report(p) ==
  /\ pc[p] = "L87"
  /\ IF p # 0
     THEN /\ pc' = [pc EXCEPT ![p] = "done"]
          /\ UNCHANGED <<meanrelerr, out>>
     ELSE IF num_nodes[p] = 0
     THEN /\ pc' = [pc EXCEPT ![p] = "ZeroDivisionError"]
          /\ UNCHANGED <<meanrelerr, out>>
     ELSE /\ meanrelerr' = [meanrelerr EXCEPT ![p] = RatDiv(relerr[p], num_nodes[p])]
          /\ out' = Append(out, [pet |-> p, meanrelerr |-> meanrelerr'[p]])
          /\ pc' = [pc EXCEPT ![p] = "done"]
  /\ UNCHANGED <<fields, num_nodes, relerr, comm>>
  /\ UNCHANGED LocStreamVars

NextRegrid ==
  \/ \E p \in Pets : LocalError(p)
  \/ \E p \in Pets : ReduceRelerr(p)
  \/ \E p \in Pets : ReduceNumNodes(p)
  \/ \E p \in Pets : Report(p)

SpecRegrid == InitRegrid /\ [][NextRegrid]_vars

\* ------------------------------------------------------------------ claims
\* the object a call returned: the one constructed last
Last == streams[Len(streams)]

\* object i shares the handle of an object constructed before it
IsShallow(i) == \E j \in 1..(i - 1) : streams[j].struct = streams[i].struct

\* the objects that refer to handle h
Sharing(h) == {i \in DOMAIN streams : streams[i].struct = h}

\* C1: for every handle, over create, copy, slice, explicit destroy and the
\* teardown at exit of the original and of all its copies and slices, the
\* engine release call is issued at most once; destroying a copy or a slice
\* never releases the handle.
C1_ReleaseAtMostOnce ==
  [][/\ \A h \in DOMAIN esmf' : esmf'[h].released <= 1
     /\ \A i \in DOMAIN streams :
          IsShallow(i) /\ Destroy(i) => esmf' = esmf /\ result'.calls = 0
     /\ Exit => \A h \in DOMAIN esmf :
          (\A i \in Sharing(h) : streams[i].finalized) => esmf'[h] = esmf[h]]_vars

\* an original, its copy and its slice were all torn down, and the handle
\* was released
C1_Witness ==
  /\ phase = "done"
  /\ \E h \in DOMAIN esmf :
       /\ esmf[h].released = 1
       /\ Cardinality(Sharing(h)) >= 3
       /\ \E i \in Sharing(h) : streams[i].size < esmf[h].count

\* a further destroy() of object i changes nothing and calls the engine not
SecondDestroyIsNoOp(i) ==
  destroy(streams, esmf, i) = [streams |-> streams, esmf |-> esmf, calls |-> 0]

\* C2: destroy() is idempotent: after a destroy(), explicit or by the
\* teardown at exit, a further destroy() of the same stream leaves stream and
\* engine state as they are, raises nothing and issues no engine call.
C2_DestroyIdempotent ==
  [][/\ \A i \in DOMAIN streams :
          Destroy(i) => /\ result'.err = ""
                        /\ streams'[i].finalized
                        /\ SecondDestroyIsNoOp(i)'
                        /\ streams[i].finalized =>
                             UNCHANGED <<streams, heap, esmf>> /\ result'.calls = 0
     /\ Exit => /\ result'.err = ""
                /\ \A i \in DOMAIN streams :
                     /\ SecondDestroyIsNoOp(i)'
                     /\ streams[i].finalized => streams'[i] = streams[i]
                /\ (\A i \in DOMAIN streams : streams[i].finalized) =>
                     UNCHANGED <<streams, heap, esmf>> /\ result'.calls = 0]_vars

\* destroy() was called on an owning stream that was finalized already
C2_Witness ==
  /\ result.op = "destroy"
  /\ ~IsShallow(result.self)
  /\ result.calls = 0
  /\ esmf[streams[result.self].struct].released = 1

\* C3: after every successful write stream[key] = values, the first and every
\* rewrite, stream[key] is the engine buffer registered for the key and that
\* buffer holds the values written.
C3_WriteReachesEngineBuffer ==
  [][\A i \in DOMAIN streams, key \in Keys, value \in Values :
       SetItem(i, key, value) /\ result'.err = "" =>
         /\ streams'[i].keys[key].base = EngineBuf(streams[i].struct, key)
         /\ ReadView(heap', streams'[i].keys[key]) = value]_vars

\* C4: in every reachable state, every array stored under a key of a stream
\* has exactly size elements, size being that stream's own size.
C4_LengthInvariant ==
  \A i \in DOMAIN streams : \A k \in DOMAIN streams[i].keys :
    streams[i].keys[k].len = streams[i].size

\* a slice narrowed a stream that holds a rewritten key
C4_Witness ==
  /\ result.op = "slice"
  /\ result.err = ""
  /\ Last.size = 1
  /\ streams[result.self].size = 2
  /\ \E k \in DOMAIN Last.keys : Last.keys[k].base \in NpIds

\* C5: a write whose length differs from the stream's size fails with the
\* invalid-length error and changes nothing: same keys, arrays, values, size
\* and bounds, and no engine call.
C5_BadLengthLeavesUnchanged ==
  [][\A i \in DOMAIN streams, key \in Keys, value \in Values :
       SetItem(i, key, value) /\ Len(value) # streams[i].size =>
         /\ result'.err = "ValueError"
         /\ result'.calls = 0
         /\ UNCHANGED <<streams, heap, esmf>>]_vars

\* a write of the wrong length to a stream that holds a key was refused
C5_Witness ==
  /\ result.op = "setitem"
  /\ result.err = "ValueError"
  /\ DOMAIN streams[result.self].keys # {}

\* C6: upperBound - lowerBound == size for every stream: after construction,
\* after copy() and for every slice, a slice of a slice included.
C6_BoundsInvariant ==
  \A i \in DOMAIN streams :
    streams[i].upper_bounds - streams[i].lower_bounds = streams[i].size

\* a slice of a slice: the stream sliced is itself narrower than its handle
C6_Witness ==
  /\ result.op = "slice"
  /\ result.err = ""
  /\ IsShallow(result.self)
  /\ streams[result.self].size < esmf[streams[result.self].struct].count
  /\ Last.size < streams[result.self].size
  /\ DOMAIN Last.keys # {}

\* the number of points of a stream of n points that the range [a, b) selects
NumSelected(n, a, b) == Cardinality({j \in 0..(n - 1) : a <= j /\ j < b})

\* C7: in a serial run, slicing by any range [a, b) returns a new stream whose
\* size is the number of points selected, whose upper bound is lower bound +
\* size, whose keys are the original's and where result[k][i] is
\* original[k][a + i].
C7_SliceCorrect ==
  [][\A i \in DOMAIN streams, slc \in SliceArgs :
       pet_count = 1 /\ GetItemSlice(i, slc) =>
         LET a == get_formatted_slice(slc)[1]
             b == get_formatted_slice(slc)[2]
             o == streams[i]
             s == streams'[Len(streams')]
         IN /\ result'.err = ""
            /\ Len(streams') = Len(streams) + 1
            /\ s.size = NumSelected(o.size, a, b)
            /\ s.upper_bounds = s.lower_bounds + s.size
            /\ DOMAIN s.keys = DOMAIN o.keys
            /\ \A k \in DOMAIN s.keys : \A j \in 1..s.size :
                 ReadView(heap', s.keys[k])[j] = ReadView(heap, o.keys[k])[a + j]]_vars

\* C7 for the ranges within the stream, 0 <= a <= b <= size: there the slice
\* has b - a points, the original's keys, and result[k][i] = original[k][a + i].
C7_SliceCorrectInRange ==
  [][\A i \in DOMAIN streams, slc \in SliceArgs :
       LET a == get_formatted_slice(slc)[1]
           b == get_formatted_slice(slc)[2]
           o == streams[i]
           s == streams'[Len(streams')]
       IN pet_count = 1 /\ GetItemSlice(i, slc) /\ a <= b /\ b <= o.size =>
            /\ result'.err = ""
            /\ Len(streams') = Len(streams) + 1
            /\ s.size = b - a
            /\ s.upper_bounds = s.lower_bounds + s.size
            /\ DOMAIN s.keys = DOMAIN o.keys
            /\ \A k \in DOMAIN s.keys : \A j \in 1..s.size :
                 ReadView(heap', s.keys[k])[j] = ReadView(heap, o.keys[k])[a + j]]_vars

\* C8 as stated: the arrays of a slice are held by value: an in-place update
\* of an element of s[k] leaves stream[k] as it is, and the other way round.
C8_SliceByValue ==
  (result.op = "slice" /\ result.err = "") =>
    LET s == Last
        o == streams[result.self]
    IN \A k \in DOMAIN s.keys : \A x \in Vals :
         /\ \A j \in 1..s.keys[k].len :
              ReadView(WriteElem(heap, s.keys[k], j, x), o.keys[k])
                = ReadView(heap, o.keys[k])
         /\ \A j \in 1..o.keys[k].len :
              ReadView(WriteElem(heap, o.keys[k], j, x), s.keys[k])
                = ReadView(heap, s.keys[k])

\* C8, amended: the arrays of a slice are views of the original's arrays:
\* for every key k and index j of the slice s = stream[a:b], s[k][j] and
\* stream[k][a + j] are the same element, so that an in-place update of either
\* is an update of the other.
C8_SliceAliases ==
  [][\A i \in DOMAIN streams, slc \in SliceArgs :
       GetItemSlice(i, slc) /\ result'.err = "" =>
         LET a == get_formatted_slice(slc)[1]
             o == streams[i]
             s == streams'[Len(streams')]
         IN \A k \in DOMAIN s.keys : \A j \in 1..s.size : \A x \in Vals :
              /\ WriteElem(heap', s.keys[k], j, x) = WriteElem(heap', o.keys[k], a + j, x)
              /\ ReadView(WriteElem(heap', s.keys[k], j, x), o.keys[k])[a + j] = x
              /\ ReadView(WriteElem(heap', o.keys[k], a + j, x), s.keys[k])[j] = x]_vars

\* a slice that starts past the first element holds a key
C8_Witness ==
  /\ result.op = "slice"
  /\ result.err = ""
  /\ \E k \in DOMAIN Last.keys :
       /\ Last.keys[k].len >= 1
       /\ Last.keys[k].start > streams[result.self].keys[k].start

\* C9 as stated: copy() copies every array by value: an in-place update of
\* an element of c[k] leaves stream[k] as it is, and the other way round.
C9_CopyByValue ==
  (result.op = "copy") =>
    LET c == Last
        o == streams[result.self]
    IN \A k \in DOMAIN c.keys : \A x \in Vals :
         /\ \A j \in 1..c.keys[k].len :
              ReadView(WriteElem(heap, c.keys[k], j, x), o.keys[k])
                = ReadView(heap, o.keys[k])
         /\ \A j \in 1..o.keys[k].len :
              ReadView(WriteElem(heap, o.keys[k], j, x), c.keys[k])
                = ReadView(heap, c.keys[k])

\* C9, amended: copy() puts the original's arrays themselves under the same
\* keys of the new instance: c[k] is stream[k] for every key k, so that an
\* in-place update of an element through either is seen through the other.
C9_CopyAliases ==
  (result.op = "copy") =>
    LET c == Last
        o == streams[result.self]
    IN /\ DOMAIN c.keys = DOMAIN o.keys
       /\ \A k \in DOMAIN o.keys :
            /\ c.keys[k] = o.keys[k]
            /\ \A j \in 1..o.keys[k].len : \A x \in Vals :
                 /\ ReadView(WriteElem(heap, c.keys[k], j, x), o.keys[k])[j] = x
                 /\ ReadView(WriteElem(heap, o.keys[k], j, x), c.keys[k])[j] = x

\* a copy of a stream that holds both keys
C9_Witness ==
  /\ result.op = "copy"
  /\ DOMAIN streams[result.self].keys = Keys
  /\ streams[result.self].size >= 1

\* C10: copy() issues no engine allocation, registration or release; the copy
\* refers to the same handle, has the same size, bounds, name and keys, is
\* finalized from the start, and the fields of the original, its finalized
\* flag included, are unchanged.
C10_CopyFrame ==
  [][\A i \in DOMAIN streams :
       Copy(i) =>
         LET c == streams'[Len(streams')]
             o == streams[i]
         IN /\ esmf' = esmf
            /\ result'.calls = 0
            /\ result'.err = ""
            /\ Len(streams') = Len(streams) + 1
            /\ c.struct = o.struct
            /\ c.size = o.size
            /\ c.lower_bounds = o.lower_bounds
            /\ c.upper_bounds = o.upper_bounds
            /\ c.name = o.name
            /\ DOMAIN c.keys = DOMAIN o.keys
            /\ c.finalized
            /\ \A j \in DOMAIN streams : streams'[j] = streams[j]]_vars

\* a copy of an owning stream that holds a key and is not finalized
C10_Witness ==
  /\ result.op = "copy"
  /\ ~IsShallow(result.self)
  /\ ~streams[result.self].finalized
  /\ DOMAIN streams[result.self].keys # {}

\* C11: when more than one process is active, stream[x] with a range or an
\* index x fails with SerialMethod, no object is made and no field, array or
\* engine state changes; stream[key] with a string key is a plain lookup in
\* every run: it returns when the key is present and raises KeyError when not.
C11_ParallelSliceRejected ==
  [][\A i \in DOMAIN streams :
       /\ \A slc \in SliceArgs :
            pet_count > 1 /\ GetItemSlice(i, slc) =>
              /\ result'.err = "SerialMethod"
              /\ result'.calls = 0
              /\ UNCHANGED <<streams, heap, esmf>>
       /\ \A key \in Keys :
            GetItemKey(i, key) =>
              /\ result'.err = IF key \in DOMAIN streams[i].keys THEN "" ELSE "KeyError"
              /\ UNCHANGED <<streams, heap, esmf>>]_vars

\* a parallel run refused to slice a stream that holds a key
C11_Witness ==
  /\ petCount > 1
  /\ result.op = "slice"
  /\ result.err = "SerialMethod"
  /\ DOMAIN streams[result.self].keys # {}
\* C12: once a handle has been released, no key registration is issued to the
\* engine on it: a write of a key that is not yet present, through the destroyed
\* stream or through a copy or slice of it, fails with a use-after-release
\* error and makes no engine call.
C12_NoEngineCallAfterRelease ==
  [][/\ \A h \in DOMAIN esmf :
          esmf[h].released > 0 => esmf'[h].addkey = esmf[h].addkey
     /\ \A i \in DOMAIN streams, key \in Keys, value \in Values :
          (/\ SetItem(i, key, value)
           /\ esmf[streams[i].struct].released > 0
           /\ key \notin DOMAIN streams[i].keys
           /\ Len(value) = streams[i].size
           /\ Len(value) > 0) =>
            /\ result'.err = "UseAfterRelease"
            /\ result'.calls = 0
            /\ esmf' = esmf]_vars
\* C13: the kind of element of a key is fixed by its first write: a later
\* write to the key stores the values in an array of the established kind or
\* fails, so the kind of element of stream[key] never changes once the key
\* exists.
C13_ElementTypeFixed ==
  [][\A i \in DOMAIN streams : \A k \in DOMAIN streams[i].keys :
       streams'[i].keys[k].kind = streams[i].keys[k].kind]_vars
\* every stream is finalized and every handle was released exactly once
AllReleased ==
  /\ \A i \in DOMAIN streams : streams[i].finalized
  /\ \A h \in DOMAIN esmf : esmf[h].released = 1

C14_ReleasedAtExit == (phase = "done") => AllReleased

\* every process ends: by interpreter exit or by a crash
C14_ProcessEnds == <>(phase # "running")

\* C15: the mean relative error is never divided by a point count of zero:
\* no process of the run raises ZeroDivisionError, whatever the number of
\* points it holds.
C15_NoDivisionByZeroCount ==
  \A p \in DOMAIN pc : pc[p] # "ZeroDivisionError"

\* the guard of line 71 keeps the local division of line 74 from a count of
\* zero: a process that holds no point leaves lines 66-74 with a mean of zero
C15_LocalGuard ==
  \A p \in DOMAIN pc :
    (pc[p] \in {"L83", "L84", "L87"} /\ shape_product(fields[p]) = 0) =>
      meanrelerr[p] = Zero

\* the sum of |computed - expected| / |expected| over the first k points of f
\* whose computed value is not the sentinel and whose expected value is not 0
RECURSIVE C17_SumUpTo(_, _)
C17_SumUpTo(f, k) ==
  IF k = 0 THEN Zero
  ELSE IF f.dst[k] # Sentinel /\ f.xct[k] # 0
  THEN LET s == C17_SumUpTo(f, k - 1)
           d == IF f.dst[k] >= f.xct[k] THEN f.dst[k] - f.xct[k]
                ELSE f.xct[k] - f.dst[k]
           e == IF f.xct[k] >= 0 THEN f.xct[k] ELSE -f.xct[k]
       IN Rat(s[1] * e + d * s[2], s[2] * e)
  ELSE C17_SumUpTo(f, k - 1)

\* computed [10, sentinel, 12] against expected [10, 5, 0]
C17_Example == [dst |-> <<10, Sentinel, 12>>, xct |-> <<10, 5, 0>>]

\* the local values of process p are those of lines 66-74: past line 74 and
\* before the reduction of line 83 replaces them
C17_HasLocalValues(p) ==
  pc[p] = "L83" \/ (pc[p] = "L87" /\ pet_count = 1)

\* C17: the local error sum is taken over exactly the points whose computed
\* value is not the sentinel and whose expected value is not zero, each adding
\* |computed - expected| / |expected|, and the local mean is that sum divided
\* by the number of all local points, the excluded ones included; computed
\* [10, sentinel, 12] against expected [10, 5, 0] gives sum 0 and mean 0.
C17_LocalErrorSum ==
  /\ \A p \in DOMAIN pc :
       C17_HasLocalValues(p) =>
         LET f == fields[p]
             n == Len(f.xct)
             s == C17_SumUpTo(f, n)
         IN /\ relerr[p] = s
            /\ num_nodes[p] = n
            /\ meanrelerr[p] = IF n = 0 THEN Zero ELSE Rat(s[1], s[2] * n)
  /\ local_relerr(C17_Example) = Zero
  /\ local_meanrelerr(C17_Example) = Zero
  /\ shape_product(C17_Example) = 3

\* a process holding two points, one of them excluded, has computed a local
\* sum that is not zero
C17_Witness ==
  \E p \in DOMAIN pc :
    /\ C17_HasLocalValues(p)
    /\ Len(fields[p].xct) = 2
    /\ Cardinality(numpy_where(fields[p])) = 1
    /\ relerr[p] # Zero
    /\ meanrelerr[p] = RatDiv(relerr[p], 2)

\* the sum of the local error sums of the processes of S
RECURSIVE C16_SumOfSums(_)
C16_SumOfSums(S) ==
  IF S = {} THEN Zero
  ELSE LET q == CHOOSE x \in S : TRUE
           f == fields[q]
       IN RatAdd(C17_SumUpTo(f, Len(f.xct)), C16_SumOfSums(S \ {q}))

\* the sum of the local point counts of the processes of S
RECURSIVE C16_SumOfCounts(_)
C16_SumOfCounts(S) ==
  IF S = {} THEN 0
  ELSE LET q == CHOOSE x \in S : TRUE
       IN Len(fields[q].xct) + C16_SumOfCounts(S \ {q})

\* C16: in a run of several processes the mean relative error is printed at
\* most once and by rank 0 only, every printed value is the sum of the local
\* error sums of all processes divided by the sum of their local point counts,
\* rank 0 has printed exactly once when it is done, and no other rank divides
\* at line 88: its mean stays the local one and it never raises; local sums
\* 2.0 and 3.0 over counts 4 and 6 give 0.5.
C16_GlobalMeanOnce ==
  /\ (pet_count > 1 /\ DOMAIN pc # {}) =>
       /\ Len(out) <= 1
       /\ \A k \in DOMAIN out :
            /\ out[k].pet = 0
            /\ C16_SumOfCounts(DOMAIN pc) # 0
            /\ out[k].meanrelerr =
                 LET s == C16_SumOfSums(DOMAIN pc)
                 IN Rat(s[1], s[2] * C16_SumOfCounts(DOMAIN pc))
       /\ (pc[0] = "done") <=> (Len(out) = 1)
       /\ \A p \in DOMAIN pc \ {0} :
            /\ pc[p] # "ZeroDivisionError"
            /\ pc[p] # "L66" => meanrelerr[p] = local_meanrelerr(fields[p])
  /\ RatDiv(RatAdd(<<2, 1>>, <<3, 1>>), 4 + 6) = <<1, 2>>

\* a run of 4 processes has ended, rank 0 has printed a mean that is not
\* zero, and two other processes held a local sum that is not zero
C16_Witness ==
  /\ pet_count = 4
  /\ DOMAIN pc # {}
  /\ \A p \in DOMAIN pc : pc[p] = "done"
  /\ Len(out) = 1
  /\ out[1].meanrelerr # Zero
  /\ Cardinality({p \in DOMAIN pc \ {0} : local_relerr(fields[p]) # Zero}) >= 2

\* process p has left the script: at its end or by an exception
C20_Ended(p) == pc[p] \in {"done", "ZeroDivisionError"}

\* the names of the reductions process p has entered, in order
C20_Entered(p) == [r \in DOMAIN comm[p] |-> comm[p][r][1]]

\* process p is inside a reduction and waits for the value of another process
C20_Waiting(p) ==
  /\ pc[p] \in {"L83", "L84"}
  /\ p = 0
  /\ ~reduce_ready(Len(comm[p]) + 1)

\* how far process p is in the script
C20_Position(p) ==
  CASE pc[p] = "L66" -> 0
    [] pc[p] = "L83" -> 1
    [] pc[p] = "L84" -> 2
    [] pc[p] = "L87" -> 3
    [] OTHER -> 4

\* every process enters the reduction of the error sum first and the one of
\* the point count second, whatever its data, and as long as a process has
\* not left the script some process is neither waiting nor gone: no set of
\* processes is left waiting in a reduction
C20_NoReductionBlocks ==
  (pet_count > 1 /\ DOMAIN pc # {}) =>
    /\ \A p \in DOMAIN pc :
         /\ C20_Entered(p) \in {<<>>, <<"relerr">>, <<"relerr", "num_nodes">>}
         /\ pc[p] = "L84" => C20_Entered(p) = <<"relerr">>
         /\ pc[p] \in {"L87", "done", "ZeroDivisionError"} =>
              C20_Entered(p) = <<"relerr", "num_nodes">>
    /\ (\E p \in DOMAIN pc : ~C20_Ended(p)) =>
         (\E p \in DOMAIN pc : ~C20_Ended(p) /\ ~C20_Waiting(p))

\* every step of the run moves one process forward in the script, so a run
\* in which no process is left waiting ends
C20_StepsAdvance ==
  [][/\ \A p \in DOMAIN pc : C20_Position(p)' >= C20_Position(p)
     /\ \E p \in DOMAIN pc : C20_Position(p)' > C20_Position(p)]_vars

\* C20: in a run of several processes every process enters the same two
\* reductions in the same order whatever its local data, no process is left
\* waiting in a reduction, and when the run has ended every process is done
\* and rank 0 has reported.
C20_TerminatesReported ==
  /\ C20_NoReductionBlocks
  /\ (pet_count > 1 /\ DOMAIN pc # {} /\ \A p \in DOMAIN pc : C20_Ended(p)) =>
       /\ \A p \in DOMAIN pc : pc[p] = "done"
       /\ Len(out) = 1

\* a process without points went through both reductions of a run that
\* ended with the report of rank 0
C20_ZeroLocalCountReported ==
  /\ pet_count > 1
  /\ DOMAIN pc # {}
  /\ \A p \in DOMAIN pc : pc[p] = "done"
  /\ Len(out) = 1
  /\ \E p \in DOMAIN pc : Len(fields[p].xct) = 0

\* C18: stream[name] with a name that is not a key of the stream fails with
\* KeyError and changes nothing; stream.mask never raises and changes nothing:
\* it returns the array of the key ESMF:Mask when the stream has that key and
\* None when it has not.
C18_AbsentKeyAndMask ==
  [][/\ \A i \in DOMAIN streams : \A key \in Keys :
          (GetItemKey(i, key) /\ key \notin DOMAIN streams[i].keys) =>
            /\ result'.err = "KeyError"
            /\ UNCHANGED <<streams, heap, esmf>>
     /\ \A i \in DOMAIN streams :
          Mask(i) =>
            /\ result'.err = ""
            /\ result'.value =
                 IF "ESMF:Mask" \in DOMAIN streams[i].keys
                 THEN <<streams[i].keys["ESMF:Mask"]>>
                 ELSE <<>>
            /\ UNCHANGED <<streams, heap, esmf>>]_vars

\* the mask of a stream that has a key but no mask was read: None came back
C18_Witness ==
  /\ result.op = "mask"
  /\ result.err = ""
  /\ result.value = <<>>
  /\ DOMAIN streams[result.self].keys = {"ESMF:X"}

\* the mask of a stream that has one was read
C18_MaskReturned ==
  /\ result.op = "mask"
  /\ result.value # <<>>
  /\ result.value[1] = streams[result.self].keys["ESMF:Mask"]

\* C19: for every handle and key name the engine call that registers the key
\* (ESMP_LocStreamAddKeyAlloc) is issued at most once, whatever the order of
\* the writes through the owning stream, its copies and its slices.
C19_AddKeyAllocOnce ==
  \A h \in DOMAIN esmf : \A k \in Keys : esmf[h].addkey[k] <= 1
====
